---- MODULE Spec2Model ----
(***************************************************************************)
(* Quantized CUDA storage of candle-core (src/quantized/cuda.rs).          *)
(*                                                                         *)
(* One QCudaStorage object (packed byte buffer, scheme tag, device) is     *)
(* modelled together with the process-wide FORCE_DMMV toggle and the       *)
(* float operand handed to fwd.  Buffers are modelled by their byte length *)
(* and an abstract content tag; kernels by the launches they receive.  The *)
(* device runtime is taken to be healthy: allocations, copies and kernel   *)
(* launches succeed, so every error below is one the Rust code raises.     *)
(***************************************************************************)
EXTENDS Integers, Sequences, FiniteSets, TLC

VARIABLES storage, el_count, FORCE_DMMV, operand, last

vars == <<storage, el_count, FORCE_DMMV, operand, last>>

-----------------------------------------------------------------------------
(* Bounds of the model *)

\* largest number of whole blocks in an element count
MaxBlocks == 1
\* largest extent of one dimension of a shape
MaxDim == 2
\* largest rank of the float operand
MaxRank == 4
\* largest row count handed directly to a matrix-vector kernel wrapper
MaxRows == 2

-----------------------------------------------------------------------------
(* Program constants *)

WARP_SIZE == 32
GGML_CUDA_MMV_Y == 1
CUDA_QUANTIZE_BLOCK_SIZE == 256
CUDA_DEQUANTIZE_BLOCK_SIZE == 256
MATRIX_ROW_PADDING == 512

\* GgmlDType: the fourteen variants the exhaustive match of
\* QCudaStorage::dequantize lists
Dtypes ==
  {"F32", "F16", "Q4_0", "Q4_1", "Q5_0", "Q5_1", "Q8_0", "Q8_1",
   "Q2K", "Q3K", "Q4K", "Q5K", "Q6K", "Q8K"}

\* GgmlDType::block_size: elements per block
block_size(dtype) ==
  CASE dtype \in {"F32", "F16"} -> 1
    [] dtype \in {"Q4_0", "Q4_1", "Q5_0", "Q5_1", "Q8_0", "Q8_1"} -> 32
    [] OTHER -> 256

\* GgmlDType::type_size: bytes per block
type_size(dtype) ==
  CASE dtype = "F32" -> 4
    [] dtype = "F16" -> 2
    [] dtype = "Q4_0" -> 18
    [] dtype = "Q4_1" -> 20
    [] dtype = "Q5_0" -> 22
    [] dtype = "Q5_1" -> 24
    [] dtype = "Q8_0" -> 34
    [] dtype = "Q8_1" -> 36
    [] dtype = "Q2K" -> 84
    [] dtype = "Q3K" -> 110
    [] dtype = "Q4K" -> 144
    [] dtype = "Q5K" -> 176
    [] dtype = "Q6K" -> 210
    [] dtype = "Q8K" -> 292

ceil_div(p, q) == (p + q - 1) \div q

pad(p, q) == ceil_div(p, q) * q

-----------------------------------------------------------------------------
(* Input domains *)

Devices == {"cuda:0", "cuda:1"}

\* element counts around the block boundaries of a scheme
ElemCounts(dtype) ==
  {b * block_size(dtype) + r : b \in 0..MaxBlocks, r \in {0, 1}}

\* dtype of a CudaStorage slice given to quantize
SliceDtypes == {"F32", "F16"}

NoOperand == [dims |-> <<>>, contiguous |-> TRUE, f32 |-> TRUE, made |-> FALSE]

Ok == "Ok"

NoLaunch == [kernel |-> "none", grid |-> 0, block |-> 0, is_k |-> FALSE, nb32 |-> 0]

-----------------------------------------------------------------------------
(* Host-side collaborators (candle-core's CPU quantized storage) *)

\* Device::Cpu.qzeros(n, dtype): byte length of the host block array
cpu_qzeros_bytes(n, dtype) == ceil_div(n, block_size(dtype)) * type_size(dtype)

\* QStorage::quantize on the host: encodes N*block_size floats into N blocks
cpu_quantize_ok(n, dtype) == n % block_size(dtype) = 0

\* T::to_float(blocks, dst): decodes N blocks into exactly N*block_size floats
cpu_to_float_ok(nblocks, dst_len, dtype) == dst_len = nblocks * block_size(dtype)

-----------------------------------------------------------------------------
(* QCudaStorage::zeros *)

zeros(device, n, dtype) ==
  LET size_in_bytes == ceil_div(n, block_size(dtype)) * type_size(dtype)
  IN [data |-> [len |-> size_in_bytes, content |-> "zeros"],
      dtype |-> dtype,
      device |-> device]

storage_size_in_bytes(self) == self.data.len

-----------------------------------------------------------------------------
(* QCudaStorage::quantize *)

\* faulty variant: every slice dtype is accepted
quantize_src_is_f32_m(src) == TRUE

\* the match on src.slice: only the F32 variant is accepted
quantize_src_is_f32(src) == src.slice = "F32"

\* self.data = data
quantize_store(self, data) == [self EXCEPT !.data = data]

quantize(self, src) ==
  IF ~quantize_src_is_f32(src)
  THEN [res |-> [ok |-> FALSE, err |-> "only f32 can be quantized"], self |-> self]
  ELSE LET src_len == src.len
       IN IF ~cpu_quantize_ok(src_len, self.dtype)
          THEN [res |-> [ok |-> FALSE, err |-> "host quantize size mismatch"],
                self |-> self]
          ELSE [res |-> [ok |-> TRUE, err |-> Ok],
                self |-> quantize_store(self,
                           [len |-> cpu_qzeros_bytes(src_len, self.dtype),
                            content |-> "quantized"])]

-----------------------------------------------------------------------------
(* dequantize: the device kernels *)

\* faulty variant: the table lacks the Q8K arm
dequantize_table_dtypes_m ==
  {"Q4_0", "Q4_1", "Q5_0", "Q5_1", "Q8_0", "Q2K", "Q3K", "Q4K", "Q5K", "Q6K"}

\* the schemes with an arm in the kernel table of dequantize
dequantize_table_dtypes ==
  {"Q4_0", "Q4_1", "Q5_0", "Q5_1", "Q8_0",
   "Q2K", "Q3K", "Q4K", "Q5K", "Q6K", "Q8K"}

\* (kernel_name, is_k, block_dim, num_blocks) of the kernel table
dequantize_kernel(dtype, elem_count) ==
  LET nb == (elem_count + 255) \div 256
      half == ceil_div(elem_count, 2 * CUDA_DEQUANTIZE_BLOCK_SIZE)
  IN CASE dtype = "Q4_0" -> [kernel |-> "dequantize_block_q4_0", is_k |-> FALSE, block |-> 32, grid |-> nb]
       [] dtype = "Q4_1" -> [kernel |-> "dequantize_block_q4_1", is_k |-> FALSE, block |-> 32, grid |-> nb]
       [] dtype = "Q5_0" -> [kernel |-> "dequantize_block_q5_0", is_k |-> FALSE, block |-> CUDA_DEQUANTIZE_BLOCK_SIZE, grid |-> half]
       [] dtype = "Q5_1" -> [kernel |-> "dequantize_block_q5_1", is_k |-> FALSE, block |-> CUDA_DEQUANTIZE_BLOCK_SIZE, grid |-> half]
       [] dtype = "Q8_0" -> [kernel |-> "dequantize_block_q8_0", is_k |-> FALSE, block |-> 32, grid |-> nb]
       [] dtype = "Q2K" -> [kernel |-> "dequantize_block_q2_K", is_k |-> TRUE, block |-> 64, grid |-> nb]
       [] dtype = "Q3K" -> [kernel |-> "dequantize_block_q3_K", is_k |-> TRUE, block |-> 64, grid |-> nb]
       [] dtype = "Q4K" -> [kernel |-> "dequantize_block_q4_K", is_k |-> TRUE, block |-> 32, grid |-> nb]
       [] dtype = "Q5K" -> [kernel |-> "dequantize_block_q5_K", is_k |-> TRUE, block |-> 64, grid |-> nb]
       [] dtype = "Q6K" -> [kernel |-> "dequantize_block_q6_K", is_k |-> TRUE, block |-> 64, grid |-> nb]
       [] dtype = "Q8K" -> [kernel |-> "dequantize_block_q8_K", is_k |-> TRUE, block |-> 32, grid |-> nb]

dequantize(data, dtype, elem_count, dev) ==
  IF dtype \notin dequantize_table_dtypes
  THEN [ok |-> FALSE, err |-> "unsupported dtype for dequantize", path |-> "device",
        len |-> 0, launch |-> NoLaunch]
  ELSE LET k == dequantize_kernel(dtype, elem_count)
           nb32 == IF k.is_k THEN 0
                   ELSE IF dtype \in {"Q5_0", "Q5_1"} THEN elem_count
                   ELSE elem_count \div 32
       IN [ok |-> TRUE, err |-> Ok, path |-> "device", len |-> elem_count,
           launch |-> [kernel |-> k.kernel, grid |-> k.grid, block |-> k.block,
                       is_k |-> k.is_k, nb32 |-> nb32]]

-----------------------------------------------------------------------------
(* QCudaStorage::dequantize *)

\* the matches!(...) that selects the device kernel
fast_kernel(dtype) ==
  dtype \in {"Q4_0", "Q4_1", "Q5_0", "Q5_1", "Q8_0",
             "Q2K", "Q3K", "Q4K", "Q5K", "Q6K", "Q8K"}

\* deq::<T>(buffer, n, dst): reinterprets the host copy as n blocks of T and
\* decodes them.  Reading n blocks from a shorter buffer is undefined
\* behaviour: the process may fault, or go on with whatever was read.
deq(data, dtype, n, dst_len) ==
  (IF n * type_size(dtype) > data.len
   THEN {[ok |-> FALSE, err |-> "fault", path |-> "host", len |-> 0, launch |-> NoLaunch]}
   ELSE {})
  \cup
  {IF cpu_to_float_ok(n, dst_len, dtype)
   THEN [ok |-> TRUE, err |-> Ok, path |-> "host", len |-> dst_len, launch |-> NoLaunch]
   ELSE [ok |-> FALSE, err |-> "host decode size mismatch", path |-> "host",
         len |-> 0, launch |-> NoLaunch]}

\* the set of outcomes of self.dequantize(elem_count)
QCudaStorage_dequantize(self, elem_count) ==
  IF fast_kernel(self.dtype)
  THEN {dequantize(self.data, self.dtype, elem_count, self.device)}
  ELSE LET block_len == elem_count \div block_size(self.dtype)
       IN deq(self.data, self.dtype, block_len, elem_count)

-----------------------------------------------------------------------------
(* set_force_dmmv *)

set_force_dmmv(f) == f

-----------------------------------------------------------------------------
(* The two matrix-vector kernels' wrappers *)

\* faulty variant: the block count is taken for the element count
data_elems_m(data, dtype) == data.len \div type_size(dtype)

\* data.len() / dtype.type_size() * dtype.block_size()
data_elems(data, dtype) == (data.len \div type_size(dtype)) * block_size(dtype)

\* quantize_q8_1: the launch that quantizes the float vector
quantize_q8_1(elem_count) ==
  LET kx_padded == pad(elem_count, MATRIX_ROW_PADDING)
  IN [kernel |-> "quantize_q8_1",
      grid |-> ceil_div(kx_padded, CUDA_QUANTIZE_BLOCK_SIZE),
      block |-> CUDA_QUANTIZE_BLOCK_SIZE, is_k |-> FALSE, nb32 |-> 0]

\* kernel table of dequantize_mul_mat_vec
dmmv_kernel_name(dtype) ==
  CASE dtype = "Q4_0" -> "dequantize_mul_mat_vec_q4_0_cuda"
    [] dtype = "Q4_1" -> "dequantize_mul_mat_vec_q4_1_cuda"
    [] dtype = "Q5_0" -> "dequantize_mul_mat_vec_q5_0_cuda"
    [] dtype = "Q5_1" -> "dequantize_mul_mat_vec_q5_1_cuda"
    [] dtype = "Q8_0" -> "dequantize_mul_mat_vec_q8_0_cuda"
    [] dtype = "Q2K" -> "dequantize_mul_mat_vec_q2_k"
    [] dtype = "Q3K" -> "dequantize_mul_mat_vec_q3_k"
    [] dtype = "Q4K" -> "dequantize_mul_mat_vec_q4_k"
    [] dtype = "Q5K" -> "dequantize_mul_mat_vec_q5_k"
    [] dtype = "Q6K" -> "dequantize_mul_mat_vec_q6_k"
    [] OTHER -> "unsupported"

\* kernel table of mul_mat_vec_via_q8_1
mmvq_kernel_name(dtype) ==
  CASE dtype = "Q4_0" -> "mul_mat_vec_q4_0_q8_1_cuda"
    [] dtype = "Q4_1" -> "mul_mat_vec_q4_1_q8_1_cuda"
    [] dtype = "Q5_0" -> "mul_mat_vec_q5_0_q8_1_cuda"
    [] dtype = "Q5_1" -> "mul_mat_vec_q5_1_q8_1_cuda"
    [] dtype = "Q8_0" -> "mul_mat_vec_q8_0_q8_1_cuda"
    [] dtype = "Q2K" -> "mul_mat_vec_q2_K_q8_1_cuda"
    [] dtype = "Q3K" -> "mul_mat_vec_q3_K_q8_1_cuda"
    [] dtype = "Q4K" -> "mul_mat_vec_q4_K_q8_1_cuda"
    [] dtype = "Q5K" -> "mul_mat_vec_q5_K_q8_1_cuda"
    [] dtype = "Q6K" -> "mul_mat_vec_q6_K_q8_1_cuda"
    [] OTHER -> "unsupported"

MmvErr(e, started) ==
  [ok |-> FALSE, err |-> e, len |-> 0, launch |-> NoLaunch, started |-> started]

\* Strategy A.  y_len is y.len()
dequantize_mul_mat_vec(data, y_len, dtype, ncols, nrows, dev) ==
  IF data_elems(data, dtype) < ncols * nrows THEN MmvErr("unexpected data size", {})
  ELSE IF y_len # ncols THEN MmvErr("unexpected y size", {})
  ELSE IF dmmv_kernel_name(dtype) = "unsupported"
  THEN MmvErr("unsupported dtype for quantized matmul", {})
  ELSE [ok |-> TRUE, err |-> Ok, len |-> nrows,
        launch |-> [kernel |-> dmmv_kernel_name(dtype),
                    grid |-> ceil_div(nrows, GGML_CUDA_MMV_Y),
                    block |-> WARP_SIZE, is_k |-> FALSE, nb32 |-> 0],
        started |-> {dmmv_kernel_name(dtype)}]

\* Strategy B: the vector is quantized to Q8_1 before the kernel is looked up
mul_mat_vec_via_q8_1(data, y_len, dtype, ncols, nrows, dev) ==
  IF data_elems(data, dtype) < ncols * nrows THEN MmvErr("unexpected data size", {})
  ELSE IF y_len # ncols THEN MmvErr("unexpected y size", {})
  ELSE LET ncols_padded == pad(ncols, MATRIX_ROW_PADDING)
           y_size_in_bytes ==
             (ncols_padded * type_size("Q8_1")) \div block_size("Q8_1")
           q == quantize_q8_1(ncols)
       IN IF mmvq_kernel_name(dtype) = "unsupported"
          THEN MmvErr("unsupported dtype for quantized matmul", {q.kernel})
          ELSE [ok |-> TRUE, err |-> Ok, len |-> nrows,
                launch |-> [kernel |-> mmvq_kernel_name(dtype), grid |-> nrows,
                            block |-> WARP_SIZE, is_k |-> FALSE, nb32 |-> 0],
                started |-> {q.kernel, mmvq_kernel_name(dtype)}]

-----------------------------------------------------------------------------
(* Shapes and layouts (candle-core's Shape and Layout) *)

RECURSIVE elem_count(_)
\* Shape::elem_count
elem_count(dims) == IF dims = <<>> THEN 1 ELSE Head(dims) * elem_count(Tail(dims))

\* Shape::dims2 succeeds on rank-2 shapes only
dims2_ok(shape) == Len(shape) = 2

\* Layout::contiguous_offsets: the length of the slice o1..o2, or none
contiguous_len(l) == IF l.contiguous THEN elem_count(l.dims) ELSE -1

\* CudaStorage::matmul of the dense engine, on rhs_l broadcast from (k, n):
\* needs f32 data; a strided operand may be rejected
dense_matmul(l) ==
  IF ~l.f32 THEN {"dtype mismatch in matmul op"}
  ELSE IF ~l.contiguous THEN {Ok, "matmul non-contiguous"}
  ELSE {Ok}

FwdErr(e, path, started) ==
  [ok |-> FALSE, err |-> e, path |-> path, strategy |-> "none",
   out_shape |-> <<>>, out_len |-> 0, started |-> started,
   launch_kernel |-> "none"]

-----------------------------------------------------------------------------
(* QCudaStorage::dequantize_matmul_vec *)

\* faulty variant: the toggle is read inverted
use_dmmv_m(force) == ~force

\* FORCE_DMMV.load(Relaxed) selects dequantize_mul_mat_vec
use_dmmv(force) == force

\* faulty variant: the layout is not checked
vec_contiguous_m(l) == TRUE

\* rhs_l.contiguous_offsets() is Some
vec_contiguous(l) == l.contiguous

\* faulty variant: the inner dimension is not compared
vec_dim_mismatch_m(ncols, k) == FALSE

\* ncols != *k
vec_dim_mismatch(ncols, k) == ncols # k

vec_out_shape(with_batch, nrows) ==
  IF with_batch THEN <<1, 1, nrows>> ELSE <<1, nrows>>

dequantize_matmul_vec(self, self_shape, l, force) ==
  IF ~dims2_ok(self_shape) THEN FwdErr("unexpected number of dims", "vec", {})
  ELSE IF ~l.f32 THEN FwdErr("unexpected dtype", "vec", {})
  ELSE IF ~vec_contiguous(l) THEN FwdErr("RequiresContiguous", "vec", {})
  ELSE IF ~(\/ (Len(l.dims) = 3 /\ l.dims[1] = 1 /\ l.dims[2] = 1)
            \/ (Len(l.dims) = 2 /\ l.dims[1] = 1))
  THEN FwdErr("unexpected rhs shape in dmmv", "vec", {})
  ELSE
    LET nrows == self_shape[1]
        ncols == self_shape[2]
        with_batch == Len(l.dims) = 3
        k == l.dims[Len(l.dims)]
        y_len == contiguous_len(l)
    IN IF vec_dim_mismatch(ncols, k) THEN FwdErr("mismatch on matmul dim", "vec", {})
       ELSE LET strategy == IF use_dmmv(force) THEN "A" ELSE "B"
                out == IF use_dmmv(force)
                       THEN dequantize_mul_mat_vec(self.data, y_len, self.dtype,
                                                   ncols, nrows, self.device)
                       ELSE mul_mat_vec_via_q8_1(self.data, y_len, self.dtype,
                                                 ncols, nrows, self.device)
            IN IF ~out.ok
               THEN [FwdErr(out.err, "vec", out.started) EXCEPT !.strategy = strategy]
               ELSE [ok |-> TRUE, err |-> Ok, path |-> "vec", strategy |-> strategy,
                     out_shape |-> vec_out_shape(with_batch, nrows),
                     out_len |-> out.len, started |-> out.started,
                     launch_kernel |-> out.launch.kernel]

-----------------------------------------------------------------------------
(* QCudaStorage::dequantize_matmul *)

\* faulty variant: the last dimension is not popped
matmul_out_shape_m(dims, n) == Append(dims, n)

\* out_shape = dims; out_shape.pop(); out_shape.push(n)
matmul_out_shape(dims, n) == Append(SubSeq(dims, 1, Len(dims) - 1), n)

\* k2 != k
matmul_dim_mismatch(k2, k) == k2 # k

\* the set of outcomes of self.dequantize_matmul(self_shape, storage, layout)
dequantize_matmul(self, self_shape, l) ==
  IF ~dims2_ok(self_shape) THEN {FwdErr("unexpected number of dims", "matrix", {})}
  ELSE IF Len(l.dims) \notin {2, 3}
  THEN {FwdErr("unexpected shape for input", "matrix", {})}
  ELSE
    LET n == self_shape[1]
        k == self_shape[2]
        b == IF Len(l.dims) = 3 THEN l.dims[1] ELSE 1
        m == l.dims[Len(l.dims) - 1]
        k2 == l.dims[Len(l.dims)]
    IN IF matmul_dim_mismatch(k2, k)
       THEN {FwdErr("mismatch on matmul dim", "matrix", {})}
       ELSE
         {IF ~d.ok
          THEN FwdErr(d.err, "matrix", {"dequantize"})
          ELSE IF mm # Ok
          THEN FwdErr(mm, "matrix", {"dequantize", "dense_matmul"})
          ELSE [ok |-> TRUE, err |-> Ok, path |-> "matrix", strategy |-> "none",
                out_shape |-> matmul_out_shape(l.dims, n),
                out_len |-> b * m * n, started |-> {"dequantize", "dense_matmul"},
                launch_kernel |-> "none"]
          : d \in QCudaStorage_dequantize(self, n * k), mm \in dense_matmul(l)}

-----------------------------------------------------------------------------
(* QCudaStorage::fwd *)

\* faulty variant: the batched pattern [1, 1, _] is missing
fwd_is_vec_m(dims) == Len(dims) = 2 /\ dims[1] = 1

\* matches!(layout.shape().dims(), [1, 1, _] | [1, _])
fwd_is_vec(dims) ==
  \/ Len(dims) = 3 /\ dims[1] = 1 /\ dims[2] = 1
  \/ Len(dims) = 2 /\ dims[1] = 1

fwd(self, self_shape, l, force) ==
  IF fwd_is_vec(l.dims)
  THEN {dequantize_matmul_vec(self, self_shape, l, force)}
  ELSE dequantize_matmul(self, self_shape, l)

-----------------------------------------------------------------------------
(* Shapes the calls are made with *)

Shapes(r) == [1..r -> 1..MaxDim]

\* Declared shapes of the quantized tensor: every matrix, and one shape of
\* rank 1 and of rank 3 (Shape::dims2 looks at the rank only)
SelfShapes == Shapes(2) \cup {[i \in 1..r |-> MaxDim] : r \in {1, 3}}

\* Shapes of the float operand: every shape up to rank 3; above rank 3 the
\* ones whose leading dimensions are 1 (the nearest to the vector patterns)
RhsShapes ==
  UNION {Shapes(r) : r \in 0..3}
  \cup UNION {{s \in Shapes(r) : \A i \in 1..(r - 1) : s[i] = 1} : r \in 4..MaxRank}

-----------------------------------------------------------------------------
(* State machine *)

\* A storage as QCudaStorage::zeros constructs it
Init ==
  \E device \in Devices, dtype \in Dtypes :
    \E n \in ElemCounts(dtype) :
      /\ storage = zeros(device, n, dtype)
      /\ el_count = n
      /\ FORCE_DMMV = FALSE
      /\ operand = NoOperand
      /\ last = [op |-> "zeros"]

\* The storages fwd is run against: empty, or MaxBlocks whole blocks
InitFwd ==
  \E dtype \in Dtypes :
    \E n \in {0, MaxBlocks * block_size(dtype)} :
      /\ storage = zeros("cuda:0", n, dtype)
      /\ el_count = n
      /\ FORCE_DMMV = FALSE
      /\ operand = NoOperand
      /\ last = [op |-> "zeros"]

SetForceDmmv ==
  \E f \in BOOLEAN :
    /\ FORCE_DMMV' = set_force_dmmv(f)
    /\ last' = [op |-> "set_force_dmmv", f |-> f]
    /\ UNCHANGED <<storage, el_count, operand>>

Quantize ==
  \E slice \in SliceDtypes, n \in ElemCounts(storage.dtype) :
    LET src == [slice |-> slice, len |-> n]
        r == quantize(storage, src)
    IN /\ storage' = r.self
       /\ last' = [op |-> "quantize", src |-> src, res |-> r.res]
       /\ UNCHANGED <<el_count, FORCE_DMMV, operand>>

Dequantize ==
  \E n \in ElemCounts(storage.dtype) :
    \E r \in QCudaStorage_dequantize(storage, n) :
      /\ last' = [op |-> "dequantize", elem_count |-> n, res |-> r]
      /\ UNCHANGED <<storage, el_count, FORCE_DMMV, operand>>

\* The caller builds the float operand (a CudaStorage and its Layout)
MakeOperand ==
  \E dims \in RhsShapes, c \in BOOLEAN, f \in BOOLEAN :
    /\ operand' = [dims |-> dims, contiguous |-> c, f32 |-> f, made |-> TRUE]
    /\ last' = [op |-> "operand"]
    /\ UNCHANGED <<storage, el_count, FORCE_DMMV>>

Fwd ==
  /\ operand.made
  /\ \E self_shape \in SelfShapes :
       \E r \in fwd(storage, self_shape, operand, FORCE_DMMV) :
         /\ last' = [op |-> "fwd", self_shape |-> self_shape, rhs |-> operand,
                     force |-> FORCE_DMMV, res |-> r]
         /\ UNCHANGED <<storage, el_count, FORCE_DMMV, operand>>

\* dequantize_mul_mat_vec called on the storage's buffer, as the module's test does
CallDmmv ==
  \E ncols \in ElemCounts(storage.dtype), nrows \in 0..MaxRows :
    \E y_len \in {ncols, ncols + 1} :
      /\ last' = [op |-> "dequantize_mul_mat_vec", ncols |-> ncols, nrows |-> nrows,
                  y_len |-> y_len,
                  res |-> dequantize_mul_mat_vec(storage.data, y_len, storage.dtype,
                                                 ncols, nrows, storage.device)]
      /\ UNCHANGED <<storage, el_count, FORCE_DMMV, operand>>

\* mul_mat_vec_via_q8_1 called on the storage's buffer, as the module's test does
CallMmvq ==
  \E ncols \in ElemCounts(storage.dtype), nrows \in 0..MaxRows :
    \E y_len \in {ncols, ncols + 1} :
      /\ last' = [op |-> "mul_mat_vec_via_q8_1", ncols |-> ncols, nrows |-> nrows,
                  y_len |-> y_len,
                  res |-> mul_mat_vec_via_q8_1(storage.data, y_len, storage.dtype,
                                               ncols, nrows, storage.device)]
      /\ UNCHANGED <<storage, el_count, FORCE_DMMV, operand>>

\* Storage lifecycle: quantize and dequantize on a constructed storage
Next == Quantize \/ Dequantize

Spec == Init /\ [][Next]_vars

\* The matrix-vector kernels on a storage that is constructed and quantized
NextMmv == Quantize \/ CallDmmv \/ CallMmvq

SpecMmv == Init /\ [][NextMmv]_vars

\* The dispatcher on every operand the caller can build
NextFwd == SetForceDmmv \/ MakeOperand \/ Fwd

SpecFwd == InitFwd /\ [][NextFwd]_vars

\* Operands of the vector patterns, and matrices beside them
ToggleShapes ==
  UNION {{<<1, k>>, <<1, 1, k>>, <<MaxDim, k>>} : k \in 1..MaxDim}

\* A storage and one operand that stays the same through the run
InitToggle ==
  \E dtype \in Dtypes, dims \in ToggleShapes, c \in BOOLEAN, f \in BOOLEAN :
    \E n \in {0, MaxBlocks * block_size(dtype)} :
      /\ storage = zeros("cuda:0", n, dtype)
      /\ el_count = n
      /\ FORCE_DMMV = FALSE
      /\ operand = [dims |-> dims, contiguous |-> c, f32 |-> f, made |-> TRUE]
      /\ last = [op |-> "zeros"]

\* The toggle against every operation of the storage
NextToggle == SetForceDmmv \/ Fwd \/ Quantize \/ Dequantize

SpecToggle == InitToggle /\ [][NextToggle]_vars

-----------------------------------------------------------------------------
(* Properties *)

\* Errors about the shape of the operand or of the quantized tensor
ShapeErrors ==
  {"mismatch on matmul dim", "unexpected shape for input",
   "unexpected number of dims", "unexpected rhs shape in dmmv"}

\* The operand's shape is one of the vector patterns [1, k] and [1, 1, k]
IsVecPattern(d) ==
  \/ Len(d) = 2 /\ d[1] = 1
  \/ Len(d) = 3 /\ d[1] = 1 /\ d[2] = 1

\* C1: after zeros(device, n, scheme) and any number of quantize calls,
\* storage_size_in_bytes() equals ceil(n / block_size) * type_size, n being
\* the element count the storage was declared with.
C1_SizeMatchesDeclaredCount ==
  storage_size_in_bytes(storage) =
    ((el_count + block_size(storage.dtype) - 1) \div block_size(storage.dtype))
      * type_size(storage.dtype)

\* C2: fwd takes the vector path exactly when the operand's shape is [1, k]
\* or [1, 1, k], and the matrix path for every other shape; a successful
\* vector-path call returns shape [1, n_rows] for [1, k] and [1, 1, n_rows]
\* for [1, 1, k], n_rows being the first dimension of the matrix's shape.
C2_Routing ==
  last.op = "fwd" =>
    LET d == last.rhs.dims
        r == last.res
    IN /\ r.path \in {"vec", "matrix"}
       /\ (r.path = "vec") <=> IsVecPattern(d)
       /\ (r.path = "vec" /\ r.ok) =>
            /\ Len(d) = 2 => r.out_shape = <<1, last.self_shape[1]>>
            /\ Len(d) = 3 => r.out_shape = <<1, 1, last.self_shape[1]>>

C2_Witness ==
  /\ last.op = "fwd" /\ last.res.ok /\ last.res.path = "vec"
  /\ last.rhs.dims = <<1, 1, 1>>
  /\ last.self_shape = <<2, 1>>
  /\ last.res.out_shape = <<1, 1, 2>>

\* C3: on the matrix path, a 2-D or 3-D operand whose last dimension equals
\* the matrix's column count passes the dispatcher's shape checks and a
\* successful call returns the operand's shape with the last dimension
\* replaced by the matrix's row count; an operand of any other rank fails
\* with an unsupported-shape error.
C3_MatrixPathShape ==
  (last.op = "fwd" /\ last.res.path = "matrix") =>
    LET d == last.rhs.dims
        s == last.self_shape
        r == last.res
    IN /\ (Len(s) = 2 /\ Len(d) \in {2, 3} /\ d[Len(d)] = s[2]) =>
            /\ r.err \notin ShapeErrors
            /\ r.ok => /\ Len(r.out_shape) = Len(d)
                       /\ r.out_shape[Len(d)] = s[1]
                       /\ \A i \in 1..(Len(d) - 1) : r.out_shape[i] = d[i]
       /\ Len(d) \notin {2, 3} =>
            /\ ~r.ok
            /\ r.err \in {"unexpected shape for input", "unexpected number of dims"}
            /\ Len(s) = 2 => r.err = "unexpected shape for input"

C3_Witness ==
  /\ last.op = "fwd" /\ last.res.ok /\ last.res.path = "matrix"
  /\ last.rhs.dims = <<2, 2, 1>>
  /\ last.self_shape = <<2, 1>>
  /\ last.res.out_shape = <<2, 2, 2>>

\* The operand's last dimension differs from the second dimension of the
\* quantized tensor's declared shape
InnerMismatch ==
  /\ last.op = "fwd"
  /\ Len(last.rhs.dims) >= 1
  /\ Len(last.self_shape) >= 2
  /\ last.rhs.dims[Len(last.rhs.dims)] # last.self_shape[2]

\* C4 as stated, for f32 operands: a forward call whose operand's last
\* dimension differs from the matrix's column count fails with a shape error,
\* on both paths, and starts no kernel, dequantization or dense multiply.
C4_MismatchIsShapeError ==
  (InnerMismatch /\ last.rhs.f32) =>
    /\ ~last.res.ok
    /\ last.res.err \in ShapeErrors
    /\ last.res.started = {}

\* C4 as amended: such a call fails and starts no kernel, dequantization or
\* dense multiply; the error is a shape error, except on the vector path of a
\* 2-D matrix, where an operand that is not f32 fails with the dtype error and
\* an f32 operand that is not contiguous fails with RequiresContiguous, both
\* raised before the dimensions are compared.
C4_MismatchFails ==
  InnerMismatch =>
    LET r == last.res
        early == r.path = "vec" /\ Len(last.self_shape) = 2
    IN /\ ~r.ok
       /\ r.started = {}
       /\ r.strategy = "none"
       /\ IF early /\ ~last.rhs.f32 THEN r.err = "unexpected dtype"
          ELSE IF early /\ ~last.rhs.contiguous THEN r.err = "RequiresContiguous"
          ELSE r.err \in ShapeErrors

C4_Witness ==
  /\ InnerMismatch
  /\ last.res.path = "vec"
  /\ last.rhs.f32 /\ last.rhs.contiguous
  /\ last.res.err = "mismatch on matmul dim"

\* C5: a vector-path call whose f32 operand is not contiguous returns no
\* result and invokes neither strategy, whatever the toggle and the inner
\* dimension; on a quantized matrix (a 2-D declared shape) the error is
\* RequiresContiguous.
C5_NonContiguousVec ==
  (/\ last.op = "fwd" /\ last.res.path = "vec"
   /\ last.rhs.f32 /\ ~last.rhs.contiguous) =>
    /\ ~last.res.ok
    /\ last.res.strategy = "none"
    /\ last.res.started = {}
    /\ Len(last.self_shape) = 2 => last.res.err = "RequiresContiguous"

C5_Witness ==
  /\ last.op = "fwd" /\ last.res.path = "vec"
  /\ last.rhs.f32 /\ ~last.rhs.contiguous
  /\ last.force
  /\ last.self_shape = <<2, 2>> /\ last.rhs.dims = <<1, 1>>
  /\ last.res.err = "RequiresContiguous"

\* The call got past every check of dequantize_matmul_vec that precedes the
\* choice of a strategy
ReachesStrategy(l) ==
  /\ l.op = "fwd"
  /\ IsVecPattern(l.rhs.dims)
  /\ Len(l.self_shape) = 2
  /\ l.rhs.f32 /\ l.rhs.contiguous
  /\ l.rhs.dims[Len(l.rhs.dims)] = l.self_shape[2]

\* C6: the toggle starts unset; a vector-path call that reaches strategy
\* selection uses strategy A exactly when the toggle is set at that moment
\* and strategy B otherwise; the toggle takes the value of the latest
\* set_force_dmmv call and no other operation changes it.
C6_ToggleSelectsStrategy ==
  /\ FORCE_DMMV = FALSE
  /\ [][/\ (last'.op = "set_force_dmmv") => FORCE_DMMV' = last'.f
        /\ (last'.op # "set_force_dmmv") => FORCE_DMMV' = FORCE_DMMV
        /\ ReachesStrategy(last') =>
             /\ last'.res.strategy = (IF FORCE_DMMV THEN "A" ELSE "B")
             /\ last'.res.ok =>
                  last'.res.launch_kernel =
                    (IF FORCE_DMMV THEN dmmv_kernel_name(storage.dtype)
                     ELSE mmvq_kernel_name(storage.dtype))
        /\ (last'.op = "fwd" /\ ~ReachesStrategy(last')) =>
             last'.res.strategy = "none"]_vars

C6_Witness ==
  /\ last.op = "fwd" /\ last.res.ok
  /\ FORCE_DMMV
  /\ last.res.strategy = "A"
  /\ storage.data.content = "quantized"

\* C7: dequantize(element_count) fails with the unsupported-dtype error
\* whenever element_count is not a multiple of the scheme's block_size.
C7_NonMultipleFails ==
  (last.op = "dequantize" /\ last.elem_count % block_size(storage.dtype) # 0) =>
    /\ ~last.res.ok
    /\ last.res.err = "unsupported dtype for dequantize"

\* C8: a quantize call with a source that is not f32 fails and leaves the
\* storage as it was; a quantize call that fails for any reason leaves it as
\* it was; a successful one replaces the buffer and keeps the scheme tag and
\* the device.
C8_QuantizeFrame ==
  [][(last'.op = "quantize") =>
       /\ last'.src.slice # "F32" => ~last'.res.ok
       /\ ~last'.res.ok => storage' = storage
       /\ last'.res.ok =>
            /\ storage'.dtype = storage.dtype
            /\ storage'.device = storage.device
            /\ storage'.data.content = "quantized"]_vars

C8_Witness ==
  /\ last.op = "quantize"
  /\ last.src.slice = "F16"
  /\ ~last.res.ok
  /\ storage.data.content = "quantized"
  /\ storage.device = "cuda:1"

\* C9: dequantize takes one path per scheme and never meets the kernel
\* table's unsupported-dtype branch: Q4_0, Q4_1, Q5_0, Q5_1, Q8_0, Q2K, Q3K,
\* Q4K, Q5K, Q6K and Q8K go to their device kernel, F32, F16 and Q8_1 to the
\* host decode.
C9_DequantizePaths ==
  last.op = "dequantize" =>
    LET r == last.res
        t == storage.dtype
    IN /\ r.err # "unsupported dtype for dequantize"
       /\ t \in {"Q4_0", "Q4_1", "Q5_0", "Q5_1", "Q8_0",
                 "Q2K", "Q3K", "Q4K", "Q5K", "Q6K", "Q8K"} =>
            /\ r.path = "device"
            /\ r.ok
            /\ r.launch.kernel # "none"
       /\ t \in {"F32", "F16", "Q8_1"} => r.path = "host" /\ r.launch.kernel = "none"

C9_Witness ==
  /\ last.op = "dequantize"
  /\ storage.dtype = "Q8K"
  /\ last.res.ok
  /\ last.res.path = "device"
  /\ last.elem_count = 256

\* C10: each matrix-vector wrapper succeeds, returning n_rows floats, exactly
\* when (byte length / type_size) * block_size >= n_cols * n_rows, the vector
\* has n_cols elements and the scheme is one of Q4_0, Q4_1, Q5_0, Q5_1, Q8_0,
\* Q2K, Q3K, Q4K, Q5K, Q6K; failing the first two gives a size error, and
\* otherwise F32, F16, Q8_1 and Q8K give the unsupported-dtype error; a failed
\* call returns no buffer.  A Q4_0 storage declared with n elements and then
\* quantized from n floats holds enough data for n_cols = n, n_rows = 1.
C10_MatVecContract ==
  /\ last.op \in {"dequantize_mul_mat_vec", "mul_mat_vec_via_q8_1"} =>
       LET r == last.res
           t == storage.dtype
           size_ok == (storage.data.len \div type_size(t)) * block_size(t)
                        >= last.ncols * last.nrows
           y_ok == last.y_len = last.ncols
           dtype_ok == t \in {"Q4_0", "Q4_1", "Q5_0", "Q5_1", "Q8_0",
                              "Q2K", "Q3K", "Q4K", "Q5K", "Q6K"}
       IN /\ r.ok <=> (size_ok /\ y_ok /\ dtype_ok)
          /\ r.ok => r.len = last.nrows /\ r.launch.kernel # "none"
          /\ ~r.ok => r.len = 0 /\ r.launch.kernel = "none"
          /\ ~size_ok => r.err = "unexpected data size"
          /\ (size_ok /\ ~y_ok) => r.err = "unexpected y size"
          /\ (size_ok /\ y_ok /\ ~dtype_ok) =>
               /\ t \in {"F32", "F16", "Q8_1", "Q8K"}
               /\ r.err = "unsupported dtype for quantized matmul"
  /\ (/\ last.op = "quantize" /\ last.res.ok
      /\ storage.dtype = "Q4_0" /\ last.src.len = el_count) =>
       (storage.data.len \div 18) * 32 >= el_count * 1

C10_Witness ==
  /\ last.op = "mul_mat_vec_via_q8_1"
  /\ storage.dtype = "Q4_0"
  /\ storage.data.content = "quantized"
  /\ last.ncols = el_count /\ last.ncols = 32 /\ last.nrows = 1
  /\ last.res.ok /\ last.res.len = 1

====
